---- MODULE Spec2Model ----
(***************************************************************************)
(* Model of scripts/fill_grain_type.py: the one-shot backfill of           *)
(* sell_transactions.grain_type.                                           *)
(*                                                                         *)
(* Text values (grain types, regex groups, JSON strings) are sequences of  *)
(* one-character strings, so that SQL trim() and Python str.strip() are    *)
(* computed character by character.  SQL NULL / Python None is the         *)
(* one-element sequence NULL, which is no text.                            *)
(*                                                                         *)
(* Rates are integers counting ten-thousandths, so 1910.0004 is 19100004   *)
(* and the tolerance 0.001 is 10.                                          *)
(*                                                                         *)
(* A description is the string itself; Payload and Search give what        *)
(* json.loads(unquote(...)) and re.search return for it.                   *)
(* The column quantity is selected at line 68 and never used; the model    *)
(* leaves it out.                                                          *)
(***************************************************************************)
EXTENDS Integers, Sequences, FiniteSets

VARIABLES
    durable,     \* the committed content of sell_transactions in the database file
    working,     \* the content as the connection sees it (durable + uncommitted writes)
    backup,      \* the file <db_path>.bak
    pc,          \* position of main()
    run,         \* number of the current invocation of the script
    rows,        \* result of the first SELECT (line 43)
    updates,     \* list of (grain, id) built by the parse loop (line 46)
    remaining,   \* result of the second SELECT (line 69)
    inferred,    \* list of (id, grain) built by the inference loop (line 70)
    k,           \* index of the loop in progress (lines 61 and 71)
    output,      \* what the current invocation has printed so far: one tuple
                 \* per line, its head naming the line
    tieBreak,    \* which of several groups of equal count the database lists
                 \* first; fixed by the schema and the build, not by the script
    startTable,  \* history: durable content when the current invocation started
    prevFinal    \* history: durable content at the end of the preceding
                 \* invocation, NoTable in the first one

vars == <<durable, working, backup, pc, run, rows, updates, remaining,
          inferred, k, output, tieBreak, startTable, prevFinal>>

----------------------------------------------------------------------------
(* Bounds of the model *)

NumRows == 3
MaxRuns == 2

----------------------------------------------------------------------------
(* Values *)

NULL == <<"<NULL>">>
EmptyText == <<>>
Space == <<" ">>
Wheat == <<"W", "h", "e", "a", "t">>
Bajra == <<"B", "a", "j", "r", "a">>

NoTable == <<>>

\* abs(rate_per_quintal - ?) < 0.001
Tolerance == 10

Abs(x) == IF x < 0 THEN -x ELSE x

WithinTolerance(a, b) == Abs(a - b) < Tolerance

----------------------------------------------------------------------------
(* Text functions *)

SqlSpace == {" "}
PyWhitespace == {" ", "\t"}

RECURSIVE LStrip(_, _)
LStrip(s, ws) ==
    IF s = <<>> THEN <<>>
    ELSE IF Head(s) \in ws THEN LStrip(Tail(s), ws) ELSE s

RECURSIVE RStrip(_, _)
RStrip(s, ws) ==
    IF s = <<>> THEN <<>>
    ELSE IF s[Len(s)] \in ws THEN RStrip(SubSeq(s, 1, Len(s) - 1), ws) ELSE s

\* SQLite trim(X): removes spaces from both ends
SqlTrim(s) == RStrip(LStrip(s, SqlSpace), SqlSpace)

\* Python str.strip(): removes whitespace from both ends
PyStrip(s) == RStrip(LStrip(s, PyWhitespace), PyWhitespace)

\* Python truthiness of a parser result: None and '' are falsy
Truthy(g) == g # NULL /\ g # EmptyText

\* WHERE grain_type IS NULL OR trim(grain_type) = ''
IsEmptyGrain(g) == g = NULL \/ SqlTrim(g) = EmptyText

----------------------------------------------------------------------------
(* Descriptions and the two parsers *)

\* The descriptions the model's databases hold.  NullDescription stands for
\* SQL NULL (Python None), the others are the strings themselves.
NullDescription == "<NULL>"
EmptyDescription == ""
UnlabelledText == ": 9 bags x 50kg @ 1910/qt"
BosTextBajra == "BillOfSupplyItems:: Bajra\t: 12 bags x 50.5kg"
BosItemsSpace ==
    "BillOfSupplyItems::%7B%22items%22%3A%5B%7B%22grainType%22%3A%22%20%22%7D%5D%7D"

\* desc.startswith('BillOfSupplyItems::')
StartsWithBOS(desc) == desc \in {BosTextBajra, BosItemsSpace}

\* outcomes of json.loads(unquote(...)): a decoding failure, a JSON array,
\* a JSON object (with or without the key 'items'), any other JSON value
InvalidPayload == [shape |-> "invalid", hasItems |-> FALSE, items |-> <<>>]
ScalarPayload == [shape |-> "scalar", hasItems |-> FALSE, items |-> <<>>]
ListPayload(its) == [shape |-> "list", hasItems |-> FALSE, items |-> its]
ObjectPayload(has, its) == [shape |-> "object", hasItems |-> has, items |-> its]

\* one item record of the payload
Item(has, g) == [hasGrainType |-> has, grainType |-> g]

\* json.loads(unquote(desc.replace('BillOfSupplyItems::', '', 1)))
Payload(desc) ==
    IF desc = BosItemsSpace THEN ObjectPayload(TRUE, <<Item(TRUE, Space)>>)
    ELSE InvalidPayload

\* outcomes of re.search: no match, a match without group 1, a match with group 1
NoMatch == [matched |-> FALSE, hasGroup1 |-> FALSE, group1 |-> EmptyText]
MatchNoLabel == [matched |-> TRUE, hasGroup1 |-> FALSE, group1 |-> EmptyText]
MatchLabel(g) == [matched |-> TRUE, hasGroup1 |-> TRUE, group1 |-> g]

\* re.search(r'(?:([^:]+):)?\s*(\d+)\s*bags\s*(?:x|×)\s*([\d.]+)kg', desc, re.IGNORECASE)
Search(desc) ==
    IF desc = UnlabelledText THEN MatchNoLabel
    ELSE IF desc = BosTextBajra THEN MatchLabel(Space \o Bajra \o <<"\t">>)
    ELSE NoMatch

parse_from_bos_description(desc) ==
    LET parsed == Payload(desc)
        items == IF parsed.shape = "list" THEN parsed.items
                 ELSE IF parsed.hasItems THEN parsed.items ELSE <<>>
    IN  IF parsed.shape \in {"invalid", "scalar"} THEN NULL
        ELSE IF items # <<>> /\ items[1].hasGrainType THEN items[1].grainType
        ELSE NULL

parse_from_simple_description(desc) ==
    LET m == Search(desc)
    IN  IF m.matched
        THEN IF m.hasGroup1 /\ m.group1 # EmptyText THEN PyStrip(m.group1) ELSE NULL
        ELSE NULL

\* 'not desc', line 49
NotDesc(desc) == desc = NullDescription \/ desc = EmptyDescription

\* body of the loop at lines 47-57: the grain to write, NULL when the row is skipped
ParseRow(desc) ==
    IF NotDesc(desc) THEN NULL
    ELSE LET g1 == IF StartsWithBOS(desc) THEN parse_from_bos_description(desc) ELSE NULL
             g2 == IF ~Truthy(g1) THEN parse_from_simple_description(desc) ELSE g1
         IN  IF Truthy(g2) THEN g2 ELSE NULL

----------------------------------------------------------------------------
(* The table and the SQL statements *)

Row(i, d, r, g) == [id |-> i, description |-> d, rate_per_quintal |-> r, grain_type |-> g]

Project(s, F(_)) == [i \in 1..Len(s) |-> F(s[i])]

\* a selection whose WHERE clause lets every row through
AnyRow(r) == TRUE

EmptyGrainRow(r) == IsEmptyGrain(r.grain_type)

\* SELECT id, description FROM sell_transactions WHERE grain_type IS NULL OR trim(grain_type) = ''
SelectEmpty(t) ==
    Project(SelectSeq(t, EmptyGrainRow), LAMBDA r : <<r.id, r.description>>)

\* SELECT id, rate_per_quintal, quantity FROM sell_transactions WHERE grain_type IS NULL OR ...
SelectRemaining(t) ==
    Project(SelectSeq(t, EmptyGrainRow), LAMBDA r : <<r.id, r.rate_per_quintal>>)

\* UPDATE sell_transactions SET grain_type = ? WHERE id = ?
UpdateGrain(t, id, g) ==
    [i \in 1..Len(t) |-> IF t[i].id = id THEN [t[i] EXCEPT !.grain_type = g] ELSE t[i]]

\* the parse loop, lines 46-57
ParseAll(rs) ==
    Project(SelectSeq(rs, LAMBDA r : ParseRow(r[2]) # NULL),
            LAMBDA r : <<ParseRow(r[2]), r[1]>>)

\* WHERE grain_type IS NOT NULL AND abs(rate_per_quintal - ?) < 0.001
IsCandidate(r, rate) ==
    r.grain_type # NULL /\ WithinTolerance(r.rate_per_quintal, rate)

CandidateRows(t, rate) == {i \in 1..Len(t) : IsCandidate(t[i], rate)}

\* GROUP BY grain_type, COUNT(*)
GroupCount(t, rate, g) ==
    Cardinality({i \in CandidateRows(t, rate) : t[i].grain_type = g})

\* ORDER BY cnt DESC: the groups of highest count
BestGroups(t, rate) ==
    LET groups == {t[i].grain_type : i \in CandidateRows(t, rate)}
    IN  {g \in groups : \A h \in groups : GroupCount(t, rate, h) <= GroupCount(t, rate, g)}

\* the texts of the model in the order of the BINARY collation
Collation == <<EmptyText, Space, Bajra, Wheat>>

Rank(g) == CHOOSE i \in 1..Len(Collation) : Collation[i] = g

\* LIMIT 1 and fetchone(): the grain_type of the first row of the result, NULL
\* when the result is empty.  SQL leaves the order among groups of equal
\* count open; the database lists them by grain_type, ascending or
\* descending with the query plan.
FetchCandidate(t, rate, tb) ==
    LET best == BestGroups(t, rate)
    IN  IF best = {} THEN NULL
        ELSE CHOOSE g \in best :
                \A h \in best : IF tb = "lowest" THEN Rank(g) <= Rank(h)
                                 ELSE Rank(g) >= Rank(h)

\* SELECT id, grain_type, description FROM sell_transactions WHERE id IN (...)
SelectIn(t, ids) ==
    Project(SelectSeq(t, LAMBDA r : r.id \in ids),
            LAMBDA r : <<"row", r.id, r.grain_type, r.description>>)

Range(s) == {s[i] : i \in 1..Len(s)}

\* all_ids, line 85
AllIds(ups, inf) == Project(ups, LAMBDA u : u[2]) \o Project(inf, LAMBDA i : i[1])

----------------------------------------------------------------------------
(* Initial databases *)

Rates == {19100000, 19100004, 19100012}

\* (grain_type, description) of the rows a database starts with
RowKinds ==
    { <<NULL, NullDescription>>,
      <<EmptyText, UnlabelledText>>,
      <<Wheat, EmptyDescription>>,
      <<NULL, BosTextBajra>>,
      <<Space, BosItemsSpace>> }

Tables ==
    { [i \in 1..NumRows |-> Row(i, c[i][1][2], c[i][2], c[i][1][1])] :
        c \in [1..NumRows -> RowKinds \X Rates] }

NoBackup == [state |-> "none", content |-> NoTable]

Init ==
    /\ durable \in Tables
    /\ working = durable
    /\ backup = NoBackup
    /\ pc = "backup"
    /\ run = 1
    /\ rows = <<>>
    /\ updates = <<>>
    /\ remaining = <<>>
    /\ inferred = <<>>
    /\ k = 1
    /\ output = <<>>
    /\ tieBreak \in {"lowest", "highest"}
    /\ startTable = durable
    /\ prevFinal = NoTable

----------------------------------------------------------------------------
(* main() *)

Emit(line) == output' = Append(output, line)

\* a commit that writes nothing
CommitNothing(d, w) == d

\* conn.commit()
Commit(d, w) == w

\* what an uncaught exception or a kill leaves: the open transaction is rolled back
Rollback(d, w) == d

\* a failed backup that is swallowed: main() goes on to the first SELECT
AfterBackupErrorIgnored == "select"

\* where main() goes when the backup raises an I/O error
AfterBackupError == "crashed"

\* lines 36-39: the copy succeeded
BackupOk ==
    /\ pc = "backup"
    /\ backup' = [state |-> "complete", content |-> durable]
    /\ Emit(<<"Backup created">>)
    /\ pc' = "select"
    /\ UNCHANGED <<durable, working, run, rows, updates, remaining, inferred, k,
                   tieBreak, startTable, prevFinal>>

\* lines 36-38: open() or read() or write() raised; the destination is
\* untouched when it was never opened, cut short otherwise
BackupError ==
    /\ pc = "backup"
    /\ \/ backup' = backup
       \/ backup' = [state |-> "partial", content |-> NoTable]
    /\ pc' = AfterBackupError
    /\ UNCHANGED <<durable, working, run, rows, updates, remaining, inferred, k,
                   output, tieBreak, startTable, prevFinal>>

\* lines 42-59: the first SELECT and the parse loop
SelectAndParse ==
    /\ pc = "select"
    /\ rows' = SelectEmpty(working)
    /\ updates' = ParseAll(rows')
    /\ output' = output \o << <<"Found", Len(rows')>>, <<"Parsed", Len(updates')>> >>
    /\ k' = 1
    /\ pc' = "apply"
    /\ UNCHANGED <<durable, working, backup, run, remaining, inferred,
                   tieBreak, startTable, prevFinal>>

\* lines 61-62, one iteration
ApplyUpdate ==
    /\ pc = "apply"
    /\ k <= Len(updates)
    /\ working' = UpdateGrain(working, updates[k][2], updates[k][1])
    /\ k' = k + 1
    /\ UNCHANGED <<durable, backup, pc, run, rows, updates, remaining, inferred,
                   output, tieBreak, startTable, prevFinal>>

\* lines 64-65
CommitParsed ==
    /\ pc = "apply"
    /\ k > Len(updates)
    /\ durable' = Commit(durable, working)
    /\ Emit(<<"Updates applied">>)
    /\ pc' = "select2"
    /\ UNCHANGED <<working, backup, run, rows, updates, remaining, inferred, k,
                   tieBreak, startTable, prevFinal>>

\* lines 68-70
SelectStillEmpty ==
    /\ pc = "select2"
    /\ remaining' = SelectRemaining(working)
    /\ inferred' = <<>>
    /\ k' = 1
    /\ pc' = "infer"
    /\ UNCHANGED <<durable, working, backup, run, rows, updates, output,
                   tieBreak, startTable, prevFinal>>

\* lines 71-79, one iteration
InferRow ==
    /\ pc = "infer"
    /\ k <= Len(remaining)
    /\ LET id_ == remaining[k][1]
           rate == remaining[k][2]
           inferred_grain == FetchCandidate(working, rate, tieBreak)
       IN  IF inferred_grain = NULL
           THEN UNCHANGED <<working, inferred>>
           ELSE /\ working' = UpdateGrain(working, id_, inferred_grain)
                /\ inferred' = Append(inferred, <<id_, inferred_grain>>)
    /\ k' = k + 1
    /\ UNCHANGED <<durable, backup, pc, run, rows, updates, remaining, output,
                   tieBreak, startTable, prevFinal>>

\* lines 81-82
CommitInferred ==
    /\ pc = "infer"
    /\ k > Len(remaining)
    /\ durable' = Commit(durable, working)
    /\ Emit(<<"Inferred", Len(inferred)>>)
    /\ pc' = "report"
    /\ UNCHANGED <<working, backup, run, rows, updates, remaining, inferred, k,
                   tieBreak, startTable, prevFinal>>

\* a report that walks all_ids instead of the result of the SELECT
ReportRowsInListOrder(t, ups, inf) ==
    Project(AllIds(ups, inf),
            LAMBDA id : <<"row", id, t[id].grain_type, t[id].description>>)

\* the rows printed by lines 85-90
ReportRows(t, ups, inf) ==
    IF AllIds(ups, inf) = <<>> THEN <<>> ELSE SelectIn(t, Range(AllIds(ups, inf)))

\* lines 85-93
Report ==
    /\ pc = "report"
    /\ output' = output \o ReportRows(working, updates, inferred) \o << <<"Done.">> >>
    /\ pc' = "done"
    /\ UNCHANGED <<durable, working, backup, run, rows, updates, remaining, inferred,
                   k, tieBreak, startTable, prevFinal>>

Running == {"select", "apply", "select2", "infer", "report"}

\* an unhandled database error, or the process is killed: no retries, the
\* process ends where it is (its locals are gone) and the uncommitted
\* writes are lost
Crash ==
    /\ pc \in Running
    /\ pc' = "crashed"
    /\ working' = Rollback(durable, working)
    /\ rows' = <<>>
    /\ updates' = <<>>
    /\ remaining' = <<>>
    /\ inferred' = <<>>
    /\ k' = 1
    /\ UNCHANGED <<durable, backup, run, output, tieBreak, startTable, prevFinal>>

\* the script, having run to 'Done.', is run again on the same database file
Rerun ==
    /\ pc = "done"
    /\ run < MaxRuns
    /\ run' = run + 1
    /\ prevFinal' = durable
    /\ startTable' = durable
    /\ working' = durable
    /\ rows' = <<>>
    /\ updates' = <<>>
    /\ remaining' = <<>>
    /\ inferred' = <<>>
    /\ k' = 1
    /\ output' = <<>>
    /\ pc' = "backup"
    /\ UNCHANGED <<durable, backup, tieBreak>>

Next ==
    \/ BackupOk
    \/ BackupError
    \/ SelectAndParse
    \/ ApplyUpdate
    \/ CommitParsed
    \/ SelectStillEmpty
    \/ InferRow
    \/ CommitInferred
    \/ Report
    \/ Crash
    \/ Rerun

Spec == Init /\ [][Next]_vars

----------------------------------------------------------------------------
(* Vocabulary of the properties *)

\* the line headed tag has been printed
Printed(tag) == \E i \in 1..Len(output) : output[i][1] = tag

\* grain_type is non-empty: not NULL and not all spaces
Filled(g) == g # NULL /\ SqlTrim(g) # EmptyText

\* the ids of the dumped rows, in the order of the dump
ReportedIds ==
    Project(SelectSeq(output, LAMBDA l : l[1] = "row"), LAMBDA l : l[2])

\* the ids written in step 4 and in step 5
ParsedIds == {updates[i][2] : i \in 1..Len(updates)}
InferredIds == {inferred[i][1] : i \in 1..Len(inferred)}

\* the table once every update of the list ups is applied
RECURSIVE ApplyAll(_, _)
ApplyAll(t, ups) ==
    IF ups = <<>> THEN t
    ELSE ApplyAll([i \in 1..Len(t) |->
                     IF t[i].id = ups[1][2] THEN [t[i] EXCEPT !.grain_type = ups[1][1]]
                     ELSE t[i]],
                  Tail(ups))

\* the table after all the updates of step 4, computed from the table at the start
AfterStep4(t) ==
    LET empties == SelectSeq(t, LAMBDA r : r.grain_type = NULL \/ SqlTrim(r.grain_type) = EmptyText)
        parsed == SelectSeq(empties, LAMBDA r : ParseRow(r.description) # NULL)
    IN  ApplyAll(t, Project(parsed, LAMBDA r : <<ParseRow(r.description), r.id>>))

\* the rows of t that rate-matching may still write, in query order
StillEmpty(t) ==
    SelectSeq(t, LAMBDA r : r.grain_type = NULL \/ SqlTrim(r.grain_type) = EmptyText)

\* step 5, run on the table t with the rows rem still to process, can end
\* with the table final: each row of rem is written once, with one of the
\* groups of highest count at its turn, or not at all when there is none
RECURSIVE Step5Yields(_, _, _)
Step5Yields(t, rem, final) ==
    IF rem = <<>> THEN t = final
    ELSE LET best == BestGroups(t, rem[1].rate_per_quintal)
             g == final[rem[1].id].grain_type
         IN  IF best = {} THEN Step5Yields(t, Tail(rem), final)
             ELSE /\ g \in best
                  /\ Step5Yields(ApplyAll(t, <<(<<g, rem[1].id>>)>>), Tail(rem), final)

RowIds == 1..NumRows

----------------------------------------------------------------------------
(* Properties *)

\* C1: when the script has run to 'Done.' and is run to 'Done.' again with no
\* other write in between, every row has after the second run the grain_type
\* it had after the first.
C1_SecondRunChangesNothing ==
    (pc = "done" /\ prevFinal # NoTable) =>
        \A i \in RowIds : durable[i].grain_type = prevFinal[i].grain_type

\* C2: an iteration of the rate-matching loop writes to its row the grain_type
\* of highest count among the rows with a non-empty grain_type and a rate
\* within 0.001 of the row's; it never writes an empty or all-space value, and
\* it writes nothing when there is no such row.
C2_Iteration ==
    (pc = "infer" /\ pc' = "infer" /\ k' = k + 1) =>
        LET id_ == remaining[k][1]
            rate == remaining[k][2]
            cands == {i \in RowIds : /\ Filled(working[i].grain_type)
                                     /\ WithinTolerance(working[i].rate_per_quintal, rate)}
            count(g) == Cardinality({i \in cands : working[i].grain_type = g})
            groups == {working[i].grain_type : i \in cands}
            best == {g \in groups : \A h \in groups : count(h) <= count(g)}
        IN  IF cands = {}
            THEN working' = working /\ inferred' = inferred
            ELSE /\ working'[id_].grain_type \in best
                 /\ \A i \in RowIds \ {id_} : working'[i] = working[i]
                 /\ inferred' = Append(inferred, <<id_, working'[id_].grain_type>>)

C2_WritesMajorityOfFilledRows == [][C2_Iteration]_vars

\* C3: if, when a run starts, row R has an empty grain_type and a description
\* no parser resolves, another row has R's rate and a non-empty grain_type G,
\* and G is the only non-empty grain_type among the rows within 0.001 of R's
\* rate, then R has grain_type G when the run is done.
C3_SoleCandidateIsInferred ==
    pc = "done" =>
        \A r, o \in RowIds :
            ( /\ r # o
              /\ ~Filled(startTable[r].grain_type)
              /\ ParseRow(startTable[r].description) = NULL
              /\ startTable[o].rate_per_quintal = startTable[r].rate_per_quintal
              /\ Filled(startTable[o].grain_type)
              /\ \A j \in RowIds :
                    ( /\ WithinTolerance(startTable[j].rate_per_quintal,
                                         startTable[r].rate_per_quintal)
                      /\ Filled(startTable[j].grain_type) )
                    => startTable[j].grain_type = startTable[o].grain_type )
            => durable[r].grain_type = startTable[o].grain_type

\* C4: a row that, when a run starts, has an empty grain_type, an empty or
\* absent description and a rate within 0.001 of no other row with a non-empty
\* grain_type, has the same grain_type when the run is done and is not among
\* the inferred rows.
C4_UnmatchedRowUntouched ==
    pc = "done" =>
        \A r \in RowIds :
            ( /\ ~Filled(startTable[r].grain_type)
              /\ startTable[r].description \in {NullDescription, EmptyDescription}
              /\ \A j \in RowIds \ {r} :
                    Filled(startTable[j].grain_type) =>
                        ~WithinTolerance(startTable[j].rate_per_quintal,
                                         startTable[r].rate_per_quintal) )
            => /\ durable[r].grain_type = startTable[r].grain_type
               /\ r \notin InferredIds

\* C5: a row whose grain_type is non-empty when a run starts keeps that
\* grain_type throughout the run, in the connection's view and on disk.
C5_FilledRowsKept ==
    \A i \in RowIds :
        Filled(startTable[i].grain_type) =>
            /\ working[i].grain_type = startTable[i].grain_type
            /\ durable[i].grain_type = startTable[i].grain_type

\* C5 witness: a second run has changed a row while a row filled before it
\* is in the table.
C5_Witness ==
    /\ run > 1
    /\ pc = "done"
    /\ durable # startTable
    /\ \E i \in RowIds : Filled(startTable[i].grain_type)

\* C6: as long as 'Backup created' is not printed no row differs from the
\* table the run started with, in the connection's view or on disk (so a run
\* whose backup failed ends with no row mutated); once it is printed the
\* backup file is complete and holds the table the run started with.
C6_BackupBeforeMutation ==
    /\ ~Printed("Backup created") => (working = startTable /\ durable = startTable)
    /\ Printed("Backup created") =>
           backup = [state |-> "complete", content |-> startTable]

\* C6 witness: rows are committed with the backup of the starting table in place.
C6_Witness ==
    /\ durable # startTable
    /\ Printed("Backup created")
    /\ backup.content = startTable

\* C7: whenever the run stops, the table on disk is the table at the start
\* (before the first commit), the table with exactly the step-4 updates
\* (after the first commit and before the second), or a table step 5 can
\* produce from that one (after the second commit).
C7_ThreeDurableStates ==
    pc \in {"crashed", "done"} =>
    LET first == Printed("Updates applied")
        second == Printed("Inferred")
        step4 == AfterStep4(startTable)
    IN  /\ ~first => durable = startTable
        /\ (first /\ ~second) => durable = step4
        /\ second => Step5Yields(step4, StillEmpty(step4), durable)

\* C7 witness: the run aborted between the two commits, with parsed updates
\* on disk and uncommitted inferred updates lost.
C7_Witness ==
    /\ pc = "crashed"
    /\ Printed("Updates applied")
    /\ ~Printed("Inferred")
    /\ durable # startTable
    /\ ~Step5Yields(durable, StillEmpty(durable), durable)

\* C8 as stated: the report lists the rows updated in step 4, in the order of
\* the first query, then the rows updated in step 5, in the order of the second
\* query, each touched row once.
C8_ReportInStepOrder ==
    pc = "done" =>
        /\ ReportedIds = AllIds(updates, inferred)
        /\ \A i, j \in 1..Len(ReportedIds) : i # j => ReportedIds[i] # ReportedIds[j]

\* C8 amended: the report lists exactly the rows written in step 4 or step 5,
\* each once, in the order of the table (ascending id) whichever step wrote
\* them, each with its final grain_type.
C8_ReportInTableOrder ==
    pc = "done" =>
        /\ {ReportedIds[i] : i \in 1..Len(ReportedIds)} = ParsedIds \cup InferredIds
        /\ \A i, j \in 1..Len(ReportedIds) : i < j => ReportedIds[i] < ReportedIds[j]
        /\ \A i \in 1..Len(output) :
              output[i][1] = "row" =>
                  /\ output[i][3] = durable[output[i][2]].grain_type
                  /\ output[i][4] = durable[output[i][2]].description

\* C8 witness: a report of a run in which a row written in step 5 precedes,
\* in the table, a row written in step 4.
C8_Witness ==
    /\ pc = "done"
    /\ \E a \in InferredIds : \E b \in ParsedIds : a < b

\* C9: an empty row R that no parser resolves, and whose rate is within 0.001
\* of no other row than one row S written in step 4, has when the run is done
\* the grain_type S was written in step 4.
C9_InferredFromParsedRow ==
    pc = "done" =>
        \A r \in RowIds : \A u \in 1..Len(updates) :
            ( /\ r # updates[u][2]
              /\ ~Filled(startTable[r].grain_type)
              /\ ParseRow(startTable[r].description) = NULL
              /\ \A j \in RowIds \ {r} :
                    WithinTolerance(startTable[j].rate_per_quintal,
                                    startTable[r].rate_per_quintal)
                    <=> j = updates[u][2] )
            => durable[r].grain_type = updates[u][1]

\* C10: no row is written both in step 4 and in step 5 of one run.
C10_NoRowWrittenTwice == ParsedIds \cap InferredIds = {}

====
